---- MODULE Spec2Model ----
(***************************************************************************)
(* Leaderboard analytics scripts of daily-fits: monthly_stats.py,          *)
(* weekly_stats.py and export_csv.py.                                      *)
(*                                                                         *)
(* A Python dict (insertion ordered) is a sequence of [k, v] entries in    *)
(* insertion order.  A Python float produced by a division is the exact    *)
(* rational [num, den] with den > 0.  A calendar date inside the           *)
(* aggregator is a day number (the store compares 'YYYY-MM-DD' strings,    *)
(* whose lexicographic order is the order of the days).                    *)
(***************************************************************************)
EXTENDS Integers, Sequences, FiniteSets, TLC

VARIABLES
    prog,                 \* which script / function the behaviour runs
    pc,                   \* position inside it
    daily_scores,         \* store: rows of table daily_scores, in ORDER BY order
    players,              \* store: playfab_ids that have a row in table players
    start_date, end_date, \* the window passed to calculate_*_stats
    conn,                 \* "none" | "open" | "closed"
    scores,               \* scores = cursor.fetchall()
    idx,                  \* number of rows of scores the for loop has consumed
    first_place_counts, podium_counts, top_10_counts,
    participation_counts, total_scores, daily_participants, daily_winners,
    total_days,
    results,              \* the returned report, None before the return
    raised,               \* the exception that left the function, "none" if none
    period,               \* the command line of a report script, None before it is read
    export_args,          \* the command line of export_csv.py, None before it is read
    records,              \* export_csv.py: the exported records
    files,                \* the file system: a dict from path to content
    stdout,               \* the lines printed
    exit_code             \* what main returned, None while it runs

aggVars == <<first_place_counts, podium_counts, top_10_counts,
             participation_counts, total_scores, daily_participants,
             daily_winners>>
storeVars == <<daily_scores, players, start_date, end_date>>
scriptVars == <<period, export_args, records, files, stdout, exit_code>>
vars == <<prog, pc, storeVars, conn, scores, idx, aggVars, total_days,
          results, raised, scriptVars>>

\* Python's None and a present value: a sequence of no or one element
None == <<>>
Some(x) == <<x>>
IsNone(o) == Len(o) = 0

-----------------------------------------------------------------------------
(* Bounds of the model.                                                    *)

\* Spec: the longest table daily_scores drawn
MaxRows == 3
\* Spec: the window is 1..MaxDate; the table also holds rows dated 0 (outside)
MaxDate == 1
\* Spec: the positions a row can hold
Positions == {0, 1}
\* SpecDaily: the window is 1..MaxDays; the table also holds rows dated 0
MaxDays == 4
\* SpecDaily: the longest table drawn, and the most rows one date has
MaxDailyRows == 4
MaxPerDay == 2

\* SpecRank: the most players the window holds
MaxRankPlayers == 21

\* SpecWindow: the years a command line names, the century years among them
FirstYear == 2018
LastYear == 2026
CenturyYears == {1900, 2000, 2100}
Years == (FirstYear..LastYear) \cup CenturyYears
\* SpecWindow: the month and week numbers a command line names
MaxMonthArg == 13
MaxWeekArg == 54
MonthArgs == {0 - 1} \cup (0..MaxMonthArg)
WeekArgs == {0 - 1} \cup (0..MaxWeekArg)
\* SpecWindow: --output is absent or names a file
ReportOutputs == {<<>>, << <<"report.json">> >>}

\* SpecWinners: the window is 1..MaxWinnerDate, the longest table drawn
MaxWinnerDate == 2
MaxWinnerRows == 3

\* SpecExport: the longest table daily_scores drawn
MaxExportRows == 2

\* "A" and "B" have a row in table players; "X" has rows in daily_scores only
RegisteredPlayers == {"A", "B"}
PlayfabIds == RegisteredPlayers \cup {"X"}
LowScore == 10
HighScore == 11
Scores == {LowScore, HighScore}

-----------------------------------------------------------------------------
(* Python built-ins.                                                       *)

Min(a, b) == IF a <= b THEN a ELSE b
Max(a, b) == IF a >= b THEN a ELSE b

RECURSIVE SumSeq(_)
SumSeq(s) == IF s = <<>> THEN 0 ELSE s[1] + SumSeq(Tail(s))

Range(s) == {s[i] : i \in DOMAIN s}

MaxOf(S) == CHOOSE x \in S : \A y \in S : y <= x
MinOf(S) == CHOOSE x \in S : \A y \in S : x <= y

\* a / b, Python true division of two ints
Rat(a, b) == [num |-> a, den |-> b]
RatGt(x, y) == x.num * y.den > y.num * x.den
\* int(x) for x >= 0
IntOf(x) == x.num \div x.den

\* dict operations; DictIndex is the place of key k, 0 when it is absent
DictIndex(d, k) ==
    LET at == {i \in DOMAIN d : d[i].k = k}
    IN  IF at = {} THEN 0 ELSE CHOOSE i \in at : TRUE
DictHas(d, k) == DictIndex(d, k) # 0
DictGet(d, k, dflt) ==
    LET i == DictIndex(d, k) IN IF i = 0 THEN dflt ELSE d[i].v
DictSet(d, k, v) ==
    LET i == DictIndex(d, k)
    IN  IF i = 0 THEN Append(d, [k |-> k, v |-> v]) ELSE [d EXCEPT ![i].v = v]
DictKeys(d) == {d[i].k : i \in DOMAIN d}

\* mutant: a slice that keeps one entry too many
Take_OneMore(s, n) == SubSeq(s, 1, Min(n + 1, Len(s)))

\* seq[:n]
Take(s, n) == SubSeq(s, 1, Min(n, Len(s)))

\* key(a) > key(b) for two keys, each a tuple of numbers (exact rationals)
\* compared as Python compares tuples
KeyGt(a, b) ==
    \E i \in DOMAIN a :
        /\ RatGt(a[i], b[i])
        /\ \A j \in 1..(i - 1) : ~RatGt(b[j], a[j])

\* sorted(seq, key=..., reverse=True), keys[i] being key(s[i]): list.sort is
\* stable, and with reverse=True equal keys keep their order
StableSortDesc(s, keys) ==
    LET n == Len(s)
        \* the indices of s[1..k] in sorted order: s[k] goes behind every
        \* element whose key is not smaller than its own
        order[k \in 0..n] ==
            IF k = 0 THEN <<>>
            ELSE LET prev == order[k - 1]
                     m == Cardinality({j \in 1..(k - 1) :
                                          ~KeyGt(keys[k], keys[prev[j]])})
                 IN  [j \in 1..k |-> IF j <= m THEN prev[j]
                                     ELSE IF j = m + 1 THEN k
                                     ELSE prev[j - 1]]
        final == order[n]
    IN  [p \in 1..n |-> s[final[p]]]

-----------------------------------------------------------------------------
(* Text and calendar.  A Python str is the sequence of its characters; a   *)
(* date is [year, month, day].                                             *)

DigitChars == <<"0", "1", "2", "3", "4", "5", "6", "7", "8", "9">>
DigitChar(d) == DigitChars[d + 1]
IsDigitChar(c) == \E d \in 0..9 : DigitChars[d + 1] = c
DigitValue(c) == CHOOSE d \in 0..9 : DigitChars[d + 1] = c

\* str(n), format(n, 'd')
RECURSIVE Str(_)
Str(n) ==
    IF n < 0 THEN <<"-">> \o Str(0 - n)
    ELSE IF n < 10 THEN <<DigitChar(n)>>
    ELSE Str(n \div 10) \o <<DigitChar(n % 10)>>

\* format(n, '0{w}d'): the sign, then zeros up to width w, then the digits
ZeroPad(n, w) ==
    LET sign == IF n < 0 THEN <<"-">> ELSE <<>>
        digits == Str(IF n < 0 THEN 0 - n ELSE n)
        fill == w - Len(sign) - Len(digits)
    IN  sign \o [i \in 1..fill |-> "0"] \o digits

\* mutant: every fourth year is a leap year
IsLeap_EveryFourth(year) == year % 4 = 0

\* calendar.isleap
IsLeap(year) == year % 4 = 0 /\ (year % 100 # 0 \/ year % 400 = 0)

\* calendar.mdays[1:]
MDays == <<31, 28, 31, 30, 31, 30, 31, 31, 30, 31, 30, 31>>

\* calendar.monthrange(year, month)[1], for month in 1..12
DaysInMonth(year, month) ==
    MDays[month] + (IF month = 2 /\ IsLeap(year) THEN 1 ELSE 0)

\* datetime: the days before 1 January of year, before the 1st of month,
\* and the proleptic Gregorian ordinal of a date (0001-01-01 is day 1)
DaysBeforeYear(year) ==
    LET y == year - 1
    IN  y * 365 + (y \div 4) - (y \div 100) + (y \div 400)
DaysBeforeMonth(year, month) ==
    SumSeq([m \in 1..(month - 1) |-> DaysInMonth(year, m)])
Date(y, m, d) == [year |-> y, month |-> m, day |-> d]
ToOrdinal(d) == DaysBeforeYear(d.year) + DaysBeforeMonth(d.year, d.month) + d.day
\* date.weekday(): Monday is 0
Weekday(d) == (ToOrdinal(d) + 6) % 7
\* date.fromordinal
FromOrdinal(n) ==
    LET y == CHOOSE c \in (n \div 366)..((n \div 365) + 1) :
                 DaysBeforeYear(c) < n /\ n <= DaysBeforeYear(c + 1)
        rest == n - DaysBeforeYear(y)
        m == CHOOSE c \in 1..12 :
                 /\ DaysBeforeMonth(y, c) < rest
                 /\ rest <= DaysBeforeMonth(y, c) + DaysInMonth(y, c)
    IN  Date(y, m, rest - DaysBeforeMonth(y, m))

\* date.strftime('%Y-%m-%d')
StrfDate(d) ==
    ZeroPad(d.year, 4) \o <<"-">> \o ZeroPad(d.month, 2) \o <<"-">>
        \o ZeroPad(d.day, 2)

-----------------------------------------------------------------------------
(* get_month_date_range and get_week_date_range.                           *)

\* what a resolver hands back: a window, or the exception that left it
Window(lo, hi) == [raised |-> "none", start |-> lo, end |-> hi]
Raises(e) == [raised |-> e, start |-> <<>>, end |-> <<>>]

\* calendar.month_name[1:]
MonthNames == <<"January", "February", "March", "April", "May", "June", "July",
                "August", "September", "October", "November", "December">>

get_month_date_range(year, month) ==
    LET first_day == Str(year) \o <<"-">> \o ZeroPad(month, 2) \o <<"-", "0", "1">>
    IN  IF month \notin 1..12
        THEN Raises("IllegalMonthError")   \* calendar.monthrange
        ELSE LET last_day_num == DaysInMonth(year, month)
                 last_day == Str(year) \o <<"-">> \o ZeroPad(month, 2) \o <<"-">>
                                 \o ZeroPad(last_day_num, 2)
             IN  Window(first_day, last_day)

\* _strptime: does the text match '%Y-W%W-%w', that is
\* (\d\d\d\d)-W(5[0-3]|[0-4]\d|\d)-([0-6]) with nothing left over
StrptimeMatches(t) ==
    /\ Len(t) \in {9, 10}
    /\ \A i \in 1..4 : IsDigitChar(t[i])
    /\ t[5] = "-"
    /\ t[6] = "W"
    /\ IsDigitChar(t[7])
    /\ IF Len(t) = 10
       THEN /\ IsDigitChar(t[8])
            /\ DigitValue(t[7]) <= 5
            /\ DigitValue(t[7]) = 5 => DigitValue(t[8]) <= 3
       ELSE TRUE
    /\ t[Len(t) - 1] = "-"
    /\ IsDigitChar(t[Len(t)])
    /\ DigitValue(t[Len(t)]) <= 6

\* _strptime: the groups of the match, as numbers
StrptimeYear(t) ==
    DigitValue(t[1]) * 1000 + DigitValue(t[2]) * 100 + DigitValue(t[3]) * 10
        + DigitValue(t[4])
StrptimeWeek(t) ==
    IF Len(t) = 10 THEN DigitValue(t[7]) * 10 + DigitValue(t[8])
    ELSE DigitValue(t[7])
\* %w counts from Sunday = 0; weekday counts from Monday = 0
StrptimeWeekday(t) ==
    LET w == DigitValue(t[Len(t)]) IN IF w = 0 THEN 6 ELSE w - 1

\* _strptime._calc_julian_from_U_or_W with week_starts_Mon (directive %W)
CalcJulianFromW(year, week_of_year, day_of_week) ==
    LET first_weekday == Weekday(Date(year, 1, 1))
        week_0_length == (7 - first_weekday) % 7
    IN  IF week_of_year = 0 THEN 1 + day_of_week - first_weekday
        ELSE 1 + week_0_length + 7 * (week_of_year - 1) + day_of_week

\* datetime.strptime(t, '%Y-W%W-%w'), for a text that matches
Strptime(t) ==
    LET year == StrptimeYear(t)
        julian == CalcJulianFromW(year, StrptimeWeek(t), StrptimeWeekday(t))
        \* a day before 1 January belongs to the year before
        y == IF julian <= 0 THEN year - 1 ELSE year
        j == IF julian <= 0
             THEN julian + (IF IsLeap(year - 1) THEN 366 ELSE 365)
             ELSE julian
    IN  FromOrdinal((j - 1) + ToOrdinal(Date(y, 1, 1)))

\* date + timedelta(days=n)
PlusDays(d, n) == FromOrdinal(ToOrdinal(d) + n)

get_week_date_range(year, week) ==
    LET text == Str(year) \o <<"-", "W">> \o ZeroPad(week, 2) \o <<"-", "1">>
    IN  IF ~StrptimeMatches(text)
        THEN Raises("ValueError")
        ELSE LET first_day == Strptime(text)
                 last_day == PlusDays(first_day, 6)
             IN  Window(StrfDate(first_day), StrfDate(last_day))

-----------------------------------------------------------------------------
(* Program constants.                                                      *)

PodiumMaxPosition == 2
Top10MaxPosition == 9
MonthlyTopChampions == 10
MonthlyTopPodium == 10
MonthlyTop10Finishes == 20
MonthlyMinDays == 5
MonthlyMostConsistent == 15
WeeklyTopFirstPlaces == 10
WeeklyTopPodium == 10
WeeklyMinDays == 3
WeeklyMostConsistent == 10

-----------------------------------------------------------------------------
(* The store.                                                              *)

Rows == [stat_date : 0..MaxDate, position : Positions,
         score : Scores, playfab_id : RegisteredPlayers]

\* ORDER BY ds.stat_date, ds.position
OrderedBefore(a, b) ==
    \/ a.stat_date < b.stat_date
    \/ (a.stat_date = b.stat_date /\ a.position <= b.position)

\* spec.md, section 3: "for a fixed date, position values are unique and
\* contiguous from 0"
WellFormed(table) ==
    \A i \in DOMAIN table :
        LET sameDate == {j \in DOMAIN table : table[j].stat_date = table[i].stat_date}
        IN  {table[j].position : j \in sameDate} = 0..(Cardinality(sameDate) - 1)

DailyRows == [stat_date : 0..MaxDays, position : 0..(MaxPerDay - 1),
              score : {LowScore}, playfab_id : PlayfabIds]

\* the rows that keep a well-formed table well-formed and in ORDER BY order
NextDailyRows(table) ==
    {r \in DailyRows :
        IF table = <<>> \/ table[Len(table)].stat_date < r.stat_date
        THEN r.position = 0
        ELSE /\ table[Len(table)].stat_date = r.stat_date
             /\ r.position = table[Len(table)].position + 1}

\* SpecRank: a player is a number, plays on consecutive dates of its own (so
\* every record is the only one of its date, at position 0), on `days` dates,
\* scoring HighScore on the first `high` of them and LowScore on the others
RankProfiles ==
    {pr \in [days : {WeeklyMinDays - 1, WeeklyMinDays, MonthlyMinDays - 1,
                     MonthlyMinDays, MonthlyMinDays + 1},
             high : 0..(MonthlyMinDays + 1)] :
        pr.high \in {0, 1, pr.days}}

DefaultProfile == [days |-> MonthlyMinDays, high |-> 0]

RankRows(pid, first_date, pr) ==
    [j \in 1..pr.days |->
        [stat_date |-> first_date + j - 1,
         position |-> 0,
         score |-> IF j <= pr.high THEN HighScore ELSE LowScore,
         playfab_id |-> pid]]

RankWindowEnd == MaxRankPlayers * (MonthlyMinDays + 1)

RankPlayersTable == [p \in 1..MaxRankPlayers |-> <<"name of", p>>]

\* the number of players of a SpecRank table (they are numbered from 1, in
\* the order of their rows), and whether one of them departs from the default
RankPlayersIn(table) ==
    IF table = <<>> THEN 0 ELSE table[Len(table)].playfab_id

HasDeviant(table) ==
    \/ Len(table) # DefaultProfile.days * RankPlayersIn(table)
    \/ \E i \in DOMAIN table : table[i].score # LowScore

\* table players: playfab_id -> display_name
PlayersTable == [p \in RegisteredPlayers |-> <<"name of", p>>]

\* SELECT ... FROM daily_scores ds JOIN players p ON ds.playfab_id = p.playfab_id
\* WHERE ds.stat_date BETWEEN ? AND ? ORDER BY ds.stat_date, ds.position
SelectScores(table, ptable, lo, hi) ==
    LET InResult(r) == /\ r.playfab_id \in DOMAIN ptable
                       /\ lo <= r.stat_date
                       /\ r.stat_date <= hi
        found == SelectSeq(table, InResult)
    IN  [i \in DOMAIN found |->
            [stat_date |-> found[i].stat_date,
             position |-> found[i].position,
             score |-> found[i].score,
             playfab_id |-> found[i].playfab_id,
             display_name |-> ptable[found[i].playfab_id]]]

\* SELECT COUNT(DISTINCT stat_date) FROM daily_scores WHERE stat_date BETWEEN ? AND ?
CountDistinctDates(table, lo, hi) ==
    Cardinality({table[i].stat_date : i \in
                    {j \in DOMAIN table : /\ lo <= table[j].stat_date
                                          /\ table[j].stat_date <= hi}})

\* player_names.get(pid, 'Unknown')
NameOf(player_names, pid) ==
    IF pid \in DOMAIN player_names THEN player_names[pid] ELSE "Unknown"

-----------------------------------------------------------------------------
(* The body of the for loop over the fetched rows.                         *)

\* d[k] += 1 on a defaultdict(int)
Incr(d, k) ==
    LET i == DictIndex(d, k)
    IN  IF i = 0 THEN Append(d, [k |-> k, v |-> 1]) ELSE [d EXCEPT ![i].v = @ + 1]

\* mutant: a new entry per record instead of one counter per player
TrackParticipation_PerRecord(d, row) ==
    Append(d, [k |-> row.playfab_id, v |-> 1])

TrackParticipation(d, row) == Incr(d, row.playfab_id)

\* daily_participants[stat_date].add(playfab_id) on a defaultdict(set)
TrackDailyParticipants(d, row) ==
    LET i == DictIndex(d, row.stat_date)
    IN  IF i = 0 THEN Append(d, [k |-> row.stat_date, v |-> {row.playfab_id}])
        ELSE [d EXCEPT ![i].v = @ \cup {row.playfab_id}]

\* total_scores[playfab_id].append(score) on a defaultdict(list)
TrackScores(d, row) ==
    LET i == DictIndex(d, row.playfab_id)
    IN  IF i = 0 THEN Append(d, [k |-> row.playfab_id, v |-> <<row.score>>])
        ELSE [d EXCEPT ![i].v = Append(@, row.score)]

TrackFirstPlace(d, row) ==
    IF row.position = 0 THEN Incr(d, row.playfab_id) ELSE d

TrackPodium(d, row) ==
    IF row.position <= PodiumMaxPosition THEN Incr(d, row.playfab_id) ELSE d

TrackTop10(d, row) ==
    IF row.position <= Top10MaxPosition THEN Incr(d, row.playfab_id) ELSE d

\* mutant: the first position-0 record of a date is kept
TrackDailyWinner_KeepFirst(d, row) ==
    IF row.position = 0 /\ ~DictHas(d, row.stat_date)
    THEN DictSet(d, row.stat_date,
                 [playfab_id |-> row.playfab_id,
                  display_name |-> row.display_name,
                  score |-> row.score])
    ELSE d

\* daily_winners[stat_date] = {...} for a position-0 row
TrackDailyWinner(d, row) ==
    IF row.position = 0
    THEN DictSet(d, row.stat_date,
                 [playfab_id |-> row.playfab_id,
                  display_name |-> row.display_name,
                  score |-> row.score])
    ELSE d

\* the mappings the loop fills, as one record
Aggregates ==
    [first_place_counts |-> first_place_counts,
     podium_counts |-> podium_counts,
     top_10_counts |-> top_10_counts,
     participation_counts |-> participation_counts,
     total_scores |-> total_scores,
     daily_participants |-> daily_participants,
     daily_winners |-> daily_winners]

\* the body of "for row in scores" in calculate_monthly_stats
MonthlyBody(a, row) ==
    [a EXCEPT
        !.participation_counts = TrackParticipation(@, row),
        !.daily_participants = TrackDailyParticipants(@, row),
        !.total_scores = TrackScores(@, row),
        !.first_place_counts = TrackFirstPlace(@, row),
        !.podium_counts = TrackPodium(@, row),
        !.top_10_counts = TrackTop10(@, row)]

\* the body of "for row in scores" in calculate_weekly_stats
WeeklyBody(a, row) ==
    [a EXCEPT
        !.participation_counts = TrackParticipation(@, row),
        !.total_scores = TrackScores(@, row),
        !.first_place_counts = TrackFirstPlace(@, row),
        !.daily_winners = TrackDailyWinner(@, row),
        !.podium_counts = TrackPodium(@, row)]

\* the iterations of the loop over rows[i..], one after the other
RECURSIVE MonthlyLoopFrom(_, _, _)
MonthlyLoopFrom(a, rows, i) ==
    IF i > Len(rows) THEN a
    ELSE MonthlyLoopFrom(MonthlyBody(a, rows[i]), rows, i + 1)

RECURSIVE WeeklyLoopFrom(_, _, _)
WeeklyLoopFrom(a, rows, i) ==
    IF i > Len(rows) THEN a
    ELSE WeeklyLoopFrom(WeeklyBody(a, rows[i]), rows, i + 1)

-----------------------------------------------------------------------------
(* Formatting the results.                                                 *)

\* mutant: an ascending sort that is then reversed, so equal counts come
\* out in the reverse of their insertion order
SortedByCount_Reversed(counts) ==
    LET n == Len(counts)
        flipped == [i \in 1..n |-> counts[n + 1 - i]]
    IN  StableSortDesc(flipped, [i \in 1..n |-> <<Rat(flipped[i].v, 1)>>])

\* sorted(counts.items(), key=lambda x: x[1], reverse=True)
SortedByCount(counts) ==
    StableSortDesc(counts, [i \in DOMAIN counts |-> <<Rat(counts[i].v, 1)>>])

\* (count / total_days * 100) if total_days > 0 else 0
Percentage(count, days) ==
    IF days > 0 THEN Rat(count * 100, days) ELSE Rat(0, 1)

\* mutant: the divisor without its max(..., 1) guard
AvgDailyDivisor_Unguarded(dp) == Len(dp)

\* the divisor of avg_daily_participants: max(len(daily_participants), 1)
AvgDailyDivisor(dp) == Max(Len(dp), 1)

AvgDailyParticipants(dp) ==
    Rat(SumSeq([i \in DOMAIN dp |-> Cardinality(dp[i].v)]), AvgDailyDivisor(dp))

\* results['monthly_champion']
MonthlyChampion(fpc, names, days) ==
    IF fpc # <<>>
    THEN LET top_champions == SortedByCount(fpc)
         IN  Some([playfab_id |-> top_champions[1].k,
                   display_name |-> NameOf(names, top_champions[1].k),
                   first_place_count |-> top_champions[1].v,
                   win_percentage |-> Percentage(top_champions[1].v, days)])
    ELSE None

\* results['top_champions']
MonthlyTopChampionsList(fpc, names, days) ==
    IF fpc # <<>>
    THEN LET top == Take(SortedByCount(fpc), MonthlyTopChampions)
         IN  [i \in DOMAIN top |->
                [playfab_id |-> top[i].k,
                 display_name |-> NameOf(names, top[i].k),
                 first_place_count |-> top[i].v,
                 win_percentage |-> Percentage(top[i].v, days)]]
    ELSE <<>>

\* results['top_podium_finishes'] of the monthly report
MonthlyTopPodiumList(pcs, names, days) ==
    IF pcs # <<>>
    THEN LET top == Take(SortedByCount(pcs), MonthlyTopPodium)
         IN  [i \in DOMAIN top |->
                [playfab_id |-> top[i].k,
                 display_name |-> NameOf(names, top[i].k),
                 podium_count |-> top[i].v,
                 podium_percentage |-> Percentage(top[i].v, days)]]
    ELSE <<>>

\* results['top_10_finishes']
MonthlyTop10List(tcs, names) ==
    IF tcs # <<>>
    THEN LET top == Take(SortedByCount(tcs), MonthlyTop10Finishes)
         IN  [i \in DOMAIN top |->
                [playfab_id |-> top[i].k,
                 display_name |-> NameOf(names, top[i].k),
                 top_10_count |-> top[i].v]]
    ELSE <<>>

\* mutant: the eligibility test without its days_played threshold
MonthlyEligible_NoThreshold(entry, ts) == DictHas(ts, entry.k)

\* if days_played >= 5 and pid in total_scores
MonthlyEligible(entry, ts) ==
    entry.v >= MonthlyMinDays /\ DictHas(ts, entry.k)

MonthlyConsistentEntry(entry, ts, names) ==
    LET scores_list == DictGet(ts, entry.k, <<>>)
        avg_score == Rat(SumSeq(scores_list), Len(scores_list))
    IN  [playfab_id |-> entry.k,
         display_name |-> NameOf(names, entry.k),
         days_played |-> entry.v,
         average_score |-> IntOf(avg_score),
         max_score |-> MaxOf(Range(scores_list)),
         min_score |-> MinOf(Range(scores_list)),
         consistency_rating |-> Rat(entry.v * avg_score.num, avg_score.den)]

\* results['most_consistent'] of the monthly report
MonthlyMostConsistentList(pcounts, ts, names) ==
    LET Eligible(e) == MonthlyEligible(e, ts)
        chosen == SelectSeq(pcounts, Eligible)
        consistent == [i \in DOMAIN chosen |->
                          MonthlyConsistentEntry(chosen[i], ts, names)]
        keys == [i \in DOMAIN consistent |-> <<consistent[i].consistency_rating>>]
    IN  Take(StableSortDesc(consistent, keys), MonthlyMostConsistent)

\* results['score_statistics']
ScoreStatistics(ts) ==
    IF ts # <<>>
    THEN LET all_scores == [i \in DOMAIN ts |-> ts[i].v]
             flat == UNION {Range(all_scores[i]) : i \in DOMAIN all_scores}
             n == SumSeq([i \in DOMAIN ts |-> Len(ts[i].v)])
             total == SumSeq([i \in DOMAIN ts |-> SumSeq(ts[i].v)])
         IN  Some([total_scores_recorded |-> n,
                   average_score |-> IntOf(Rat(total, n)),
                   highest_score |-> MaxOf(flat),
                   lowest_score |-> MinOf(flat)])
    ELSE <<>>

MonthlyResults(lo, hi, fpc, pcs, tcs, pcounts, ts, dp, names, days) ==
    [month_period |-> [start_date |-> lo, end_date |-> hi],
     monthly_champion |-> MonthlyChampion(fpc, names, days),
     top_champions |-> MonthlyTopChampionsList(fpc, names, days),
     top_podium_finishes |-> MonthlyTopPodiumList(pcs, names, days),
     top_10_finishes |-> MonthlyTop10List(tcs, names),
     most_consistent |-> MonthlyMostConsistentList(pcounts, ts, names),
     participation_stats |->
        [total_unique_players |-> Len(pcounts),
         total_days_tracked |-> days,
         avg_daily_participants |-> AvgDailyParticipants(dp)],
     score_statistics |-> ScoreStatistics(ts)]

\* results['weekly_champion']
WeeklyChampion(fpc, names) ==
    IF fpc # <<>>
    THEN LET top_first == SortedByCount(fpc)
         IN  Some([playfab_id |-> top_first[1].k,
                   display_name |-> NameOf(names, top_first[1].k),
                   first_place_count |-> top_first[1].v])
    ELSE None

\* results['top_first_places']
WeeklyTopFirstList(fpc, names) ==
    IF fpc # <<>>
    THEN LET top == Take(SortedByCount(fpc), WeeklyTopFirstPlaces)
         IN  [i \in DOMAIN top |->
                [playfab_id |-> top[i].k,
                 display_name |-> NameOf(names, top[i].k),
                 count |-> top[i].v]]
    ELSE <<>>

\* results['top_podium_finishes'] of the weekly report
WeeklyTopPodiumList(pcs, names) ==
    IF pcs # <<>>
    THEN LET top == Take(SortedByCount(pcs), WeeklyTopPodium)
         IN  [i \in DOMAIN top |->
                [playfab_id |-> top[i].k,
                 display_name |-> NameOf(names, top[i].k),
                 count |-> top[i].v]]
    ELSE <<>>

\* if days_played >= 3 and pid in total_scores
WeeklyEligible(entry, ts) ==
    entry.v >= WeeklyMinDays /\ DictHas(ts, entry.k)

WeeklyConsistentEntry(entry, ts, names) ==
    LET scores_list == DictGet(ts, entry.k, <<>>)
        avg_score == Rat(SumSeq(scores_list), Len(scores_list))
    IN  [playfab_id |-> entry.k,
         display_name |-> NameOf(names, entry.k),
         days_played |-> entry.v,
         average_score |-> IntOf(avg_score)]

\* results['most_consistent'] of the weekly report
WeeklyMostConsistentList(pcounts, ts, names) ==
    LET Eligible(e) == WeeklyEligible(e, ts)
        chosen == SelectSeq(pcounts, Eligible)
        consistent == [i \in DOMAIN chosen |->
                          WeeklyConsistentEntry(chosen[i], ts, names)]
        keys == [i \in DOMAIN consistent |->
                    <<Rat(consistent[i].days_played, 1),
                      Rat(consistent[i].average_score, 1)>>]
    IN  Take(StableSortDesc(consistent, keys), WeeklyMostConsistent)

WeeklyResults(lo, hi, dw, fpc, pcs, pcounts, ts, names) ==
    [week_period |-> [start_date |-> lo, end_date |-> hi],
     daily_winners |-> dw,
     weekly_champion |-> WeeklyChampion(fpc, names),
     top_first_places |-> WeeklyTopFirstList(fpc, names),
     top_podium_finishes |-> WeeklyTopPodiumList(pcs, names),
     most_consistent |-> WeeklyMostConsistentList(pcounts, ts, names),
     total_unique_players |-> Len(pcounts)]

\* the divisors of the true divisions that built a monthly report
MonthlyDivisors(r) ==
    {r.participation_stats.avg_daily_participants.den}
    \cup {r.monthly_champion[i].win_percentage.den : i \in DOMAIN r.monthly_champion}
    \cup {r.top_champions[i].win_percentage.den : i \in DOMAIN r.top_champions}
    \cup {r.top_podium_finishes[i].podium_percentage.den :
            i \in DOMAIN r.top_podium_finishes}
    \cup {r.most_consistent[i].consistency_rating.den :
            i \in DOMAIN r.most_consistent}

-----------------------------------------------------------------------------
(* calculate_monthly_stats and calculate_weekly_stats.                     *)

SetAggregates(a) ==
    /\ first_place_counts' = a.first_place_counts
    /\ podium_counts' = a.podium_counts
    /\ top_10_counts' = a.top_10_counts
    /\ participation_counts' = a.participation_counts
    /\ total_scores' = a.total_scores
    /\ daily_participants' = a.daily_participants
    /\ daily_winners' = a.daily_winners

EmptyAggregates ==
    /\ first_place_counts = <<>>
    /\ podium_counts = <<>>
    /\ top_10_counts = <<>>
    /\ participation_counts = <<>>
    /\ total_scores = <<>>
    /\ daily_participants = <<>>
    /\ daily_winners = <<>>

\* before a script runs: the store holds no row yet, the window is lo..hi
InitStore(ptable, lo, hi) ==
    /\ prog = "none"
    /\ pc = "idle"
    /\ daily_scores = <<>>
    /\ players = ptable
    /\ start_date = lo
    /\ end_date = hi
    /\ conn = "none"
    /\ scores = <<>>
    /\ idx = 0
    /\ EmptyAggregates
    /\ total_days = 0
    /\ results = None
    /\ raised = "none"
    /\ period = None
    /\ export_args = None
    /\ records = <<>>
    /\ files = <<>>
    /\ stdout = <<>>
    /\ exit_code = None

Init == InitStore(PlayersTable, 1, MaxDate)

InitDaily == InitStore(PlayersTable, 1, MaxDays)

InitRank == InitStore(RankPlayersTable, 1, RankWindowEnd)

\* the store before the call: one more row of daily_scores, any row that
\* ORDER BY lists after the rows already there (rows that agree on
\* (stat_date, position) come in either order)
StoreInsert ==
    /\ pc = "idle"
    /\ Len(daily_scores) < MaxRows
    /\ \E r \in Rows :
        /\ IF daily_scores = <<>> THEN TRUE
           ELSE OrderedBefore(daily_scores[Len(daily_scores)], r)
        /\ daily_scores' = Append(daily_scores, r)
    /\ UNCHANGED <<prog, pc, players, start_date, end_date, conn, scores, idx,
                   aggVars, total_days, results, raised, scriptVars>>

\* the store before the call, kept well-formed; the row may belong to a
\* player that has no row in table players
StoreInsertDaily ==
    /\ pc = "idle"
    /\ Len(daily_scores) < MaxDailyRows
    /\ \E r \in NextDailyRows(daily_scores) :
        daily_scores' = Append(daily_scores, r)
    /\ UNCHANGED <<prog, pc, players, start_date, end_date, conn, scores, idx,
                   aggVars, total_days, results, raised, scriptVars>>

\* the store before the call: the records of one more player, on the dates
\* that follow the last date of the table; at most one player of the table
\* departs from the default profile
StoreInsertRank ==
    /\ pc = "idle"
    /\ RankPlayersIn(daily_scores) < MaxRankPlayers
    /\ \E pr \in IF HasDeviant(daily_scores) THEN {DefaultProfile} ELSE RankProfiles :
        daily_scores' = daily_scores \o RankRows(RankPlayersIn(daily_scores) + 1,
                                                 Len(daily_scores) + 1, pr)
    /\ UNCHANGED <<prog, pc, players, start_date, end_date, conn, scores, idx,
                   aggVars, total_days, results, raised, scriptVars>>

\* the start of calculate_monthly_stats or calculate_weekly_stats:
\* sqlite3.connect, the scores query and cursor.fetchall()
Fetch(p) ==
    /\ prog' = p
    /\ conn' = "open"
    /\ scores' = SelectScores(daily_scores, players, start_date, end_date)
    /\ pc' = "loop"
    /\ UNCHANGED <<storeVars, idx, aggVars, total_days, results, raised,
                   scriptVars>>

\* a caller hands a store and a window to one of the two functions
FetchScores ==
    /\ pc = "idle"
    /\ \E p \in {"monthly", "weekly"} : Fetch(p)

\* one iteration of "for row in scores" in calculate_monthly_stats
MonthlyRow ==
    /\ prog = "monthly"
    /\ pc = "loop"
    /\ idx < Len(scores)
    /\ SetAggregates(MonthlyBody(Aggregates, scores[idx + 1]))
    /\ idx' = idx + 1
    /\ UNCHANGED <<prog, pc, storeVars, conn, scores, total_days, results, raised, scriptVars>>

\* the whole of "for row in scores" in calculate_monthly_stats
MonthlyLoop ==
    /\ prog = "monthly"
    /\ pc = "loop"
    /\ idx < Len(scores)
    /\ SetAggregates(MonthlyLoopFrom(Aggregates, scores, idx + 1))
    /\ idx' = Len(scores)
    /\ UNCHANGED <<prog, pc, storeVars, conn, scores, total_days, results, raised, scriptVars>>

\* after the loop: the names and day-count queries, conn.close(), the results
MonthlyReturn ==
    /\ prog = "monthly"
    /\ pc = "loop"
    /\ idx = Len(scores)
    /\ LET days == CountDistinctDates(daily_scores, start_date, end_date)
           r == MonthlyResults(start_date, end_date, first_place_counts,
                               podium_counts, top_10_counts,
                               participation_counts, total_scores,
                               daily_participants, players, days)
       IN  /\ total_days' = days
           /\ IF 0 \in MonthlyDivisors(r)
              THEN raised' = "ZeroDivisionError" /\ results' = None
              ELSE raised' = "none" /\ results' = Some(r)
    /\ conn' = "closed"
    /\ pc' = "done"
    /\ UNCHANGED <<prog, storeVars, scores, idx, aggVars, scriptVars>>

\* one iteration of "for row in scores" in calculate_weekly_stats
WeeklyRow ==
    /\ prog = "weekly"
    /\ pc = "loop"
    /\ idx < Len(scores)
    /\ SetAggregates(WeeklyBody(Aggregates, scores[idx + 1]))
    /\ idx' = idx + 1
    /\ UNCHANGED <<prog, pc, storeVars, conn, scores, total_days, results, raised, scriptVars>>

\* the whole of "for row in scores" in calculate_weekly_stats
WeeklyLoop ==
    /\ prog = "weekly"
    /\ pc = "loop"
    /\ idx < Len(scores)
    /\ SetAggregates(WeeklyLoopFrom(Aggregates, scores, idx + 1))
    /\ idx' = Len(scores)
    /\ UNCHANGED <<prog, pc, storeVars, conn, scores, total_days, results, raised, scriptVars>>

\* after the loop: the names query, conn.close(), the results
WeeklyReturn ==
    /\ prog = "weekly"
    /\ pc = "loop"
    /\ idx = Len(scores)
    /\ results' = Some(WeeklyResults(start_date, end_date, daily_winners,
                                     first_place_counts, podium_counts,
                                     participation_counts, total_scores,
                                     players))
    /\ conn' = "closed"
    /\ pc' = "done"
    /\ UNCHANGED <<prog, storeVars, scores, idx, aggVars, total_days, raised,
                   scriptVars>>

\* a printed line is the sequence of its pieces; a number is printed digit
\* by digit, a float as the rational it is
Line(pieces) == pieces
Lines(ls) == stdout' = stdout \o ls

\* main of a report script up to the database check: the command line, the
\* window and the first prints; an exception of the resolver leaves main
MainStart(p, year, n, out, w, title) ==
    /\ prog' = p
    /\ period' = Some([year |-> year, number |-> n, output |-> out])
    /\ IF w.raised # "none"
       THEN /\ raised' = w.raised
            /\ pc' = "exit"
            /\ exit_code' = Some(1)
            /\ UNCHANGED <<start_date, end_date, stdout>>
       ELSE /\ start_date' = w.start
            /\ end_date' = w.end
            /\ pc' = "resolved"
            /\ Lines(<<Line(title),
                       Line(<<"Date range: ">> \o w.start \o <<" to ">> \o w.end),
                       Line(<<>>)>>)
            /\ UNCHANGED <<raised, exit_code>>
    /\ UNCHANGED <<daily_scores, players, conn, scores, idx, aggVars,
                   total_days, results, export_args, records, files>>

\* monthly_stats.main with --month year-month
MonthlyMain ==
    /\ pc = "idle"
    /\ \E year \in Years, month \in MonthArgs, out \in ReportOutputs :
        MainStart("monthly", year, month, out, get_month_date_range(year, month),
                  IF month \in 1..12
                  THEN <<"Calculating monthly statistics for ", MonthNames[month],
                         " ">> \o Str(year)
                  ELSE <<>>)

\* weekly_stats.main with --week year-Wweek
WeeklyMain ==
    /\ pc = "idle"
    /\ \E year \in Years, week \in WeekArgs, out \in ReportOutputs :
        MainStart("weekly", year, week, out, get_week_date_range(year, week),
                  <<"Calculating weekly statistics for week ">> \o Str(year)
                      \o <<"-W">> \o ZeroPad(week, 2))

\* main: os.path.exists(db_path) is false
MainNoDatabase ==
    /\ pc = "resolved"
    /\ Lines(<<Line(<<"Error: Database not found at ", "db_path">>)>>)
    /\ exit_code' = Some(1)
    /\ pc' = "exit"
    /\ UNCHANGED <<prog, storeVars, conn, scores, idx, aggVars, total_days,
                   results, raised, period, export_args, records, files>>

\* main: the database is there, calculate_*_stats is called
MainCalculate ==
    /\ pc = "resolved"
    /\ Fetch(prog)

\* the lines main prints for a monthly report
MonthlyDisplay(stats) ==
    <<Line(<<"MONTHLY STATISTICS">>)>>
    \o [i \in DOMAIN stats.monthly_champion |->
          Line(<<"Monthly Champion: ", ToString(stats.monthly_champion[i].display_name),
                 ToString(stats.monthly_champion[i].first_place_count),
                 ToString(stats.monthly_champion[i].win_percentage)>>)]
    \o <<Line(<<"Top 10 - Monthly Champions:">>)>>
    \o [i \in DOMAIN stats.top_champions |->
          Line(<<ToString(i), ToString(stats.top_champions[i].display_name),
                 ToString(stats.top_champions[i].first_place_count),
                 ToString(stats.top_champions[i].win_percentage)>>)]
    \o <<Line(<<"Top 10 - Podium Finishes (Top 3):">>)>>
    \o [i \in DOMAIN stats.top_podium_finishes |->
          Line(<<ToString(i), ToString(stats.top_podium_finishes[i].display_name),
                 ToString(stats.top_podium_finishes[i].podium_count),
                 ToString(stats.top_podium_finishes[i].podium_percentage)>>)]
    \o <<Line(<<"Most Consistent Players:">>)>>
    \o [i \in DOMAIN stats.most_consistent |->
          Line(<<ToString(i), ToString(stats.most_consistent[i].display_name),
                 ToString(stats.most_consistent[i].days_played),
                 ToString(stats.most_consistent[i].average_score)>>)]
    \o <<Line(<<"Participation Statistics:">>),
         Line(<<"  Total unique players: ">>
                  \o Str(stats.participation_stats.total_unique_players)),
         Line(<<"  Days tracked: ">>
                  \o Str(stats.participation_stats.total_days_tracked)),
         Line(<<"  Average daily participants: ",
                ToString(stats.participation_stats.avg_daily_participants)>>)>>
    \o [i \in DOMAIN stats.score_statistics |->
          Line(<<"Score Statistics:", ToString(stats.score_statistics[i])>>)]

\* the lines main prints for a weekly report
WeeklyDisplay(stats) ==
    <<Line(<<"WEEKLY STATISTICS">>)>>
    \o [i \in DOMAIN stats.weekly_champion |->
          Line(<<"Weekly Champion: ", ToString(stats.weekly_champion[i].display_name),
                 ToString(stats.weekly_champion[i].first_place_count)>>)]
    \o <<Line(<<"Daily Winners:", ToString(stats.daily_winners)>>),
         Line(<<"Top 10 - First Place Finishes:">>)>>
    \o [i \in DOMAIN stats.top_first_places |->
          Line(<<ToString(i), ToString(stats.top_first_places[i].display_name),
                 ToString(stats.top_first_places[i].count)>>)]
    \o <<Line(<<"Top 10 - Podium Finishes (Top 3):">>)>>
    \o [i \in DOMAIN stats.top_podium_finishes |->
          Line(<<ToString(i), ToString(stats.top_podium_finishes[i].display_name),
                 ToString(stats.top_podium_finishes[i].count)>>)]
    \o <<Line(<<"Most Consistent Players:">>)>>
    \o [i \in DOMAIN stats.most_consistent |->
          Line(<<ToString(i), ToString(stats.most_consistent[i].display_name),
                 ToString(stats.most_consistent[i].days_played),
                 ToString(stats.most_consistent[i].average_score)>>)]
    \o <<Line(<<"Total unique players: ">> \o Str(stats.total_unique_players))>>

\* json.dump(stats, f, indent=2) of a report: the text of the one object
JsonDumpReport(stats) == <<"{", ToString(stats), "}">>

\* main after calculate_*_stats returned: the display, the optional save
MainReport ==
    /\ pc = "done"
    /\ ~IsNone(period)
    /\ raised = "none"
    /\ LET stats == results[1]
           out == period[1].output
           display == IF prog = "monthly" THEN MonthlyDisplay(stats)
                      ELSE WeeklyDisplay(stats)
       IN  IF IsNone(out)
           THEN /\ Lines(display)
                /\ UNCHANGED files
           ELSE /\ files' = DictSet(files, out[1], JsonDumpReport(stats))
                /\ Lines(display \o <<Line(<<"Results saved to ">> \o out[1])>>)
    /\ exit_code' = Some(0)
    /\ pc' = "exit"
    /\ UNCHANGED <<prog, storeVars, conn, scores, idx, aggVars, total_days,
                   results, raised, period, export_args, records>>

Calculate ==
    \/ FetchScores
    \/ MonthlyRow
    \/ MonthlyReturn
    \/ WeeklyRow
    \/ WeeklyReturn

Next == StoreInsert \/ Calculate

Spec == Init /\ [][Next]_vars

NextDaily == StoreInsertDaily \/ Calculate

SpecDaily == InitDaily /\ [][NextDaily]_vars

NextRank ==
    \/ StoreInsertRank
    \/ FetchScores
    \/ MonthlyLoop
    \/ MonthlyReturn
    \/ WeeklyLoop
    \/ WeeklyReturn

SpecRank == InitRank /\ [][NextRank]_vars

\* the rows of a window of several dates; a date may hold several rows with
\* the same position (the store does not forbid it)
WinnerRows == [stat_date : 1..MaxWinnerDate, position : Positions,
               score : Scores, playfab_id : RegisteredPlayers]

InitWinners == InitStore(PlayersTable, 1, MaxWinnerDate)

\* the store before the call: one more row, any row that ORDER BY lists
\* after the rows already there
StoreInsertWinners ==
    /\ pc = "idle"
    /\ Len(daily_scores) < MaxWinnerRows
    /\ \E r \in WinnerRows :
        /\ IF daily_scores = <<>> THEN TRUE
           ELSE OrderedBefore(daily_scores[Len(daily_scores)], r)
        /\ daily_scores' = Append(daily_scores, r)
    /\ UNCHANGED <<prog, pc, players, start_date, end_date, conn, scores, idx,
                   aggVars, total_days, results, raised, scriptVars>>

NextWinners == StoreInsertWinners \/ Calculate

SpecWinners == InitWinners /\ [][NextWinners]_vars

-----------------------------------------------------------------------------
(* export_csv.py.  An exported value is Some(v), or None for SQL NULL.     *)

\* a column the model does not interpret: its value in the row of key
Column(name, key) == Some(<<name, key>>)

\* the keys of a record of export_daily_scores, in insertion order
ScoreFields ==
    <<"stat_date", "statistic_name", "position", "score", "playfab_id",
      "display_name", "platform", "platform_user_id">>

\* the keys of a record of export_player_summary, in insertion order
PlayerFields ==
    <<"playfab_id", "display_name", "platform", "platform_user_id",
      "first_seen", "last_seen", "total_days_played", "first_place_count",
      "podium_count", "top_10_count", "average_score", "max_score",
      "min_score">>

FieldsOf(type) == IF type = "scores" THEN ScoreFields ELSE PlayerFields

\* export_daily_scores: the joined rows, filtered by the dates that are given
\* ("if start_date:", "if end_date:"), ORDER BY stat_date, position
export_daily_scores(table, ptable, lo, hi) ==
    LET InResult(r) == /\ r.playfab_id \in DOMAIN ptable
                       /\ IsNone(lo) \/ r.stat_date >= lo[1]
                       /\ IsNone(hi) \/ r.stat_date <= hi[1]
        found == SelectSeq(table, InResult)
    IN  [i \in DOMAIN found |->
            [stat_date |-> Some(found[i].stat_date),
             statistic_name |-> Column("statistic_name", found[i]),
             position |-> Some(found[i].position),
             score |-> Some(found[i].score),
             playfab_id |-> Some(found[i].playfab_id),
             display_name |-> Some(ptable[found[i].playfab_id]),
             platform |-> Column("platform", found[i].playfab_id),
             platform_user_id |-> Column("platform_user_id", found[i].playfab_id)]]

\* round(x, 2) of a float that is not zero: the nearest hundredth, an exact
\* tie going to the even one
Round2(x) ==
    LET scaled == x.num * 100
        below == scaled \div x.den
        twice == 2 * (scaled % x.den)
        k == IF twice > x.den \/ (twice = x.den /\ below % 2 = 1)
             THEN below + 1 ELSE below
    IN  Rat(k, 100)

\* one group of export_player_summary: player p LEFT JOINed with its rows
PlayerSummary(table, ptable, p) ==
    LET mine == SelectSeq(table, LAMBDA r : r.playfab_id = p)
        n == Len(mine)
        total == SumSeq([i \in DOMAIN mine |-> mine[i].score])
        Count(P(_)) == Len(SelectSeq(mine, P))
    IN  [playfab_id |-> Some(p),
         display_name |-> Some(ptable[p]),
         platform |-> Column("platform", p),
         platform_user_id |-> Column("platform_user_id", p),
         first_seen |-> Column("first_seen", p),
         last_seen |-> Column("last_seen", p),
         total_days_played |-> Some(n),
         first_place_count |-> Some(Count(LAMBDA r : r.position = 0)),
         podium_count |-> Some(Count(LAMBDA r : r.position <= PodiumMaxPosition)),
         top_10_count |-> Some(Count(LAMBDA r : r.position <= Top10MaxPosition)),
         \* round(avg, 2) if avg else 0: NULL and 0.0 both give 0
         average_score |-> IF n = 0 \/ total = 0 THEN Some(0)
                           ELSE Some(Round2(Rat(total, n))),
         max_score |-> IF n = 0 THEN None
                       ELSE Some(MaxOf({mine[i].score : i \in DOMAIN mine})),
         min_score |-> IF n = 0 THEN None
                       ELSE Some(MinOf({mine[i].score : i \in DOMAIN mine}))]

\* the key of ORDER BY total_days_played DESC, average_score DESC for player
\* p; AVG is NULL exactly when the count is 0, so a NULL is only ever
\* compared with a NULL
SummaryKey(table, p) ==
    LET mine == SelectSeq(table, LAMBDA r : r.playfab_id = p)
        n == Len(mine)
        total == SumSeq([i \in DOMAIN mine |-> mine[i].score])
    IN  <<Rat(n, 1), IF n = 0 THEN Rat(0, 1) ELSE Rat(total, n)>>

\* export_player_summary: every order of the groups that ORDER BY allows
\* (SQL leaves the order of rows with equal keys open)
export_player_summary(table, ptable) ==
    LET ps == DOMAIN ptable
        n == Cardinality(ps)
        orders == {o \in [1..n -> ps] :
                      /\ \A i, j \in 1..n : o[i] = o[j] => i = j
                      /\ \A i \in 1..(n - 1) :
                            ~KeyGt(SummaryKey(table, o[i + 1]),
                                   SummaryKey(table, o[i]))}
    IN  {[i \in 1..n |-> PlayerSummary(table, ptable, o[i])] : o \in orders}

\* what csv.DictWriter writes for a value: '' for None, else str(value)
CsvCell(v) == IF IsNone(v) THEN "" ELSE ToString(v[1])

\* the text write_csv writes, as its lines, each line as its cells: the
\* header from the keys of the first record, then one line per record
CsvText(recs, fields) ==
    <<fields>> \o [i \in DOMAIN recs |->
                      [j \in DOMAIN fields |-> CsvCell(recs[i][fields[j]])]]

\* mutant: write_csv without its test for an empty list
write_csv_Unguarded(recs, fields, fs, path) ==
    [files |-> DictSet(fs, path, CsvText(recs, fields)), printed |-> <<>>]

\* write_csv: the file system and the lines printed
write_csv(recs, fields, fs, path) ==
    IF recs = <<>>
    THEN [files |-> fs, printed |-> <<Line(<<"No records to export">>)>>]
    ELSE [files |-> DictSet(fs, path, CsvText(recs, fields)), printed |-> <<>>]

\* s[1] \o sep \o s[2] \o ... for a sequence of texts
RECURSIVE Join(_, _)
Join(s, sep) ==
    IF s = <<>> THEN <<>>
    ELSE IF Len(s) = 1 THEN s[1]
    ELSE s[1] \o sep \o Join(Tail(s), sep)

\* json.dumps of a value: null for None
JsonValue(v) == IF IsNone(v) THEN "null" ELSE ToString(v[1])

\* json.dumps of one record at indent level 1 of indent=2
JsonObject(rec, fields) ==
    <<"  {", "\n">>
    \o Join([j \in DOMAIN fields |->
                <<"    ", "\"", fields[j], "\"", ": ", JsonValue(rec[fields[j]])>>],
            <<",", "\n">>)
    \o <<"\n", "  }">>

\* json.dump(records, f, indent=2): the text, character by character for
\* the empty list
JsonText(recs, fields) ==
    IF recs = <<>> THEN <<"[", "]">>
    ELSE <<"[", "\n">>
         \o Join([i \in DOMAIN recs |-> JsonObject(recs[i], fields)], <<",", "\n">>)
         \o <<"\n", "]">>

\* write_json: open(path, 'w') and json.dump
write_json(recs, fields, fs, path) ==
    [files |-> DictSet(fs, path, JsonText(recs, fields)), printed |-> <<>>]

\* the path --output names, and the content of a file found there
UserPath == <<"out.dat">>
OldContent == <<"old">>

\* output_path of main: args.output, or a generated name
OutputPath(args) ==
    IF IsNone(args.output)
    THEN <<"export_", args.type, "_", "timestamp", ".", args.format>>
    ELSE args.output[1]

\* before export_csv.py runs: the table players is filled or empty
InitExport ==
    \E ptable \in {PlayersTable, <<>>} : InitStore(ptable, None, None)

\* the store before the run: one more row of daily_scores
StoreInsertExport ==
    /\ pc = "idle"
    /\ Len(daily_scores) < MaxExportRows
    /\ \E r \in Rows :
        /\ IF daily_scores = <<>> THEN TRUE
           ELSE OrderedBefore(daily_scores[Len(daily_scores)], r)
        /\ daily_scores' = Append(daily_scores, r)
    /\ UNCHANGED <<prog, pc, players, start_date, end_date, conn, scores, idx,
                   aggVars, total_days, results, raised, scriptVars>>

\* the file system before the run: a file is already at the --output path
FileExists ==
    /\ pc = "idle"
    /\ files = <<>>
    /\ files' = DictSet(files, UserPath, OldContent)
    /\ UNCHANGED <<prog, pc, storeVars, conn, scores, idx, aggVars, total_days,
                   results, raised, period, export_args, records, stdout,
                   exit_code>>

\* main: os.path.exists(db_path) is false
ExportNoDatabase ==
    /\ pc = "idle"
    /\ prog' = "export"
    /\ Lines(<<Line(<<"Error: Database not found at ", "db_path">>)>>)
    /\ exit_code' = Some(1)
    /\ pc' = "exit"
    /\ UNCHANGED <<storeVars, conn, scores, idx, aggVars, total_days, results,
                   raised, period, export_args, records, files>>

\* main: the command line, the output path, the first print
ExportMain ==
    /\ pc = "idle"
    /\ prog' = "export"
    /\ \E format \in {"csv", "json"}, type \in {"scores", "players"},
          lo \in {None, Some(1)}, hi \in {None, Some(MaxDate - 1)},
          out \in {None, Some(UserPath)} :
        LET args == [format |-> format, type |-> type, start_date |-> lo,
                     end_date |-> hi, output |-> out]
        IN  /\ export_args' = Some(args)
            /\ Lines(<<Line(<<"Exporting ", type, " data to ">>
                                \o OutputPath(args) \o <<"...">>)>>)
    /\ pc' = "export"
    /\ UNCHANGED <<storeVars, conn, scores, idx, aggVars, total_days, results,
                   raised, period, records, files, exit_code>>

\* main: export_daily_scores or export_player_summary (connect, query,
\* close) and the print of the count
ExportFetch ==
    /\ pc = "export"
    /\ LET args == export_args[1]
       IN  IF args.type = "scores"
           THEN LET recs == export_daily_scores(daily_scores, players,
                                                args.start_date, args.end_date)
                IN  /\ records' = recs
                    /\ Lines(<<Line(<<"Exported ">> \o Str(Len(recs))
                                        \o <<" score records">>)>>)
           ELSE \E recs \in export_player_summary(daily_scores, players) :
                    /\ records' = recs
                    /\ Lines(<<Line(<<"Exported ">> \o Str(Len(recs))
                                        \o <<" player records">>)>>)
    /\ conn' = "closed"
    /\ pc' = "write"
    /\ UNCHANGED <<prog, storeVars, scores, idx, aggVars, total_days, results,
                   raised, period, export_args, files, exit_code>>

\* main: write_csv or write_json, the closing prints, return 0
ExportWrite ==
    /\ pc = "write"
    /\ LET args == export_args[1]
           path == OutputPath(args)
           fields == FieldsOf(args.type)
           w == IF args.format = "csv"
                THEN write_csv(records, fields, files, path)
                ELSE write_json(records, fields, files, path)
       IN  /\ files' = w.files
           /\ Lines(w.printed
                    \o <<Line(<<"Export completed successfully">>),
                         Line(<<"  Output: ">> \o path),
                         Line(<<"  Records: ">> \o Str(Len(records)))>>)
    /\ exit_code' = Some(0)
    /\ pc' = "exit"
    /\ UNCHANGED <<prog, storeVars, conn, scores, idx, aggVars, total_days,
                   results, raised, period, export_args, records>>

NextExport ==
    \/ StoreInsertExport
    \/ FileExists
    \/ ExportNoDatabase
    \/ ExportMain
    \/ ExportFetch
    \/ ExportWrite

SpecExport == InitExport /\ [][NextExport]_vars

\* sqlite3 raises from cursor.execute (a table is missing, the file is not a
\* database, the database is locked): the statement the call was at is left
\* by the exception and no later statement of the function runs; none of the
\* four functions has a try, a with or a finally around its connection

\* calculate_monthly_stats or calculate_weekly_stats: sqlite3.connect
\* succeeds and the scores query raises
FetchScoresRaises ==
    /\ pc = "idle"
    /\ \E p \in {"monthly", "weekly"} : prog' = p
    /\ conn' = "open"
    /\ raised' = "OperationalError"
    /\ pc' = "done"
    /\ UNCHANGED <<storeVars, scores, idx, aggVars, total_days, results,
                   scriptVars>>

\* calculate_monthly_stats: the loop is over and the query of the player
\* names or the query of the day count raises
MonthlyReturnRaises ==
    /\ prog = "monthly"
    /\ pc = "loop"
    /\ idx = Len(scores)
    /\ raised' = "OperationalError"
    /\ pc' = "done"
    /\ UNCHANGED <<prog, storeVars, conn, scores, idx, aggVars, total_days,
                   results, scriptVars>>

\* calculate_weekly_stats: the loop is over and the query of the player
\* names raises
WeeklyReturnRaises ==
    /\ prog = "weekly"
    /\ pc = "loop"
    /\ idx = Len(scores)
    /\ raised' = "OperationalError"
    /\ pc' = "done"
    /\ UNCHANGED <<prog, storeVars, conn, scores, idx, aggVars, total_days,
                   results, scriptVars>>

\* main of the exporter: export_daily_scores or export_player_summary has
\* connected and its query raises; main has no handler, the interpreter
\* prints the traceback and exits with status 1
ExportFetchRaises ==
    /\ pc = "export"
    /\ conn' = "open"
    /\ raised' = "OperationalError"
    /\ exit_code' = Some(1)
    /\ pc' = "exit"
    /\ UNCHANGED <<prog, storeVars, scores, idx, aggVars, total_days, results,
                   period, export_args, records, files, stdout>>

\* the four functions that open the store, each with its queries succeeding
\* or raising
NextFault ==
    \/ StoreInsertExport
    \/ FetchScores
    \/ FetchScoresRaises
    \/ MonthlyRow
    \/ MonthlyReturn
    \/ MonthlyReturnRaises
    \/ WeeklyRow
    \/ WeeklyReturn
    \/ WeeklyReturnRaises
    \/ ExportMain
    \/ ExportFetch
    \/ ExportFetchRaises
    \/ ExportWrite

SpecFault == Init /\ [][NextFault]_vars

\* a report script run from its command line, on a store without rows
NextWindow ==
    \/ MonthlyMain
    \/ WeeklyMain
    \/ MainNoDatabase
    \/ MainCalculate
    \/ MonthlyReturn
    \/ WeeklyReturn
    \/ MainReport

\* no window before the command line is read
InitWindow == InitStore(PlayersTable, None, None)

SpecWindow == InitWindow /\ [][NextWindow]_vars

-----------------------------------------------------------------------------
(* Claims.                                                                 *)

Returned == pc = "done" /\ prog \in {"monthly", "weekly"}
Report == results[1]

\* the distinct player ids among the score records of the window
PlayersSeen == {scores[i].playfab_id : i \in DOMAIN scores}

ReportedUniquePlayers ==
    IF prog = "monthly"
    THEN Report.participation_stats.total_unique_players
    ELSE Report.total_unique_players

\* C1: for a non-empty sequence of score records in the window, the report's
\* total_unique_players is the number of distinct player_id values among
\* those records, however many records each player has.
C1_UniquePlayers ==
    (Returned /\ scores # <<>>) =>
        /\ ~IsNone(results)
        /\ ReportedUniquePlayers = Cardinality(PlayersSeen)

\* C1 witness: a report over three records of two players.
C1_Witness ==
    /\ Returned
    /\ Len(scores) = 3
    /\ Cardinality(PlayersSeen) = 2
    /\ ReportedUniquePlayers = 2

\* the rows of daily_scores that lie in the window
InWindow == SelectSeq(daily_scores,
                LAMBDA r : start_date <= r.stat_date /\ r.stat_date <= end_date)

SumOfFirstPlaceCounts ==
    SumSeq([i \in DOMAIN first_place_counts |-> first_place_counts[i].v])

\* C2: for a window whose input is well-formed (per date, positions unique and
\* contiguous from 0), the sum of first_place_count over all players computed
\* by calculate_monthly_stats equals total_days_tracked.
C2_OneFirstPlacePerDay ==
    (Returned /\ prog = "monthly" /\ ~IsNone(results)
        /\ WellFormed(InWindow) /\ WellFormed(scores)) =>
        SumOfFirstPlaceCounts = Report.participation_stats.total_days_tracked

\* what C2 says holds when every row of the window belongs to a registered
\* player (not a claim: the code's behaviour next to the failing case)
C2_WithoutOrphans ==
    (Returned /\ prog = "monthly" /\ ~IsNone(results)
        /\ WellFormed(InWindow) /\ Len(scores) = Len(InWindow)) =>
        SumOfFirstPlaceCounts = Report.participation_stats.total_days_tracked

\* C3: with no score records in the window the aggregator returns a report
\* without raising: the champion is None, every ranking list is empty,
\* avg_daily_participants is 0, and no division by zero occurs.
C3_EmptyWindow ==
    (Returned /\ scores = <<>>) =>
        /\ raised = "none"
        /\ ~IsNone(results)
        /\ Report.top_podium_finishes = <<>>
        /\ Report.most_consistent = <<>>
        /\ IF prog = "monthly"
           THEN /\ IsNone(Report.monthly_champion)
                /\ Report.top_champions = <<>>
                /\ Report.top_10_finishes = <<>>
                /\ Report.participation_stats.avg_daily_participants.num = 0
                /\ Report.participation_stats.avg_daily_participants.den # 0
           ELSE /\ IsNone(Report.weekly_champion)
                /\ Report.top_first_places = <<>>

\* C3 witness: a monthly report over a window without records, from a store
\* whose table is not empty.
C3_Witness ==
    /\ Returned
    /\ prog = "monthly"
    /\ scores = <<>>
    /\ daily_scores # <<>>
    /\ ~IsNone(results)
    /\ IsNone(Report.monthly_champion)

\* first places of player p among the first n records
Wins(p, n) ==
    Cardinality({i \in 1..n : scores[i].playfab_id = p /\ scores[i].position = 0})

MaxWins == MaxOf({Wins(p, Len(scores)) : p \in PlayersSeen})
TiedAtMax == {p \in PlayersSeen : Wins(p, Len(scores)) = MaxWins}

\* the record at which player p has m first places for the first time
ReachIndex(p, m) == MinOf({i \in DOMAIN scores : Wins(p, i) = m})

FirstToReachMax ==
    CHOOSE p \in TiedAtMax :
        \A q \in TiedAtMax : ReachIndex(p, MaxWins) <= ReachIndex(q, MaxWins)

FirstToWin ==
    CHOOSE p \in TiedAtMax : \A q \in TiedAtMax : ReachIndex(p, 1) <= ReachIndex(q, 1)

HasFirstPlace == \E i \in DOMAIN scores : scores[i].position = 0

Champion ==
    IF prog = "monthly" THEN Report.monthly_champion ELSE Report.weekly_champion

\* C4 as stated: with a position-0 record in the window, the champion has the
\* maximal first_place_count, reports that maximum, and among players tied at
\* the maximum is the first one to reach the maximal count in the
\* (date, position)-sorted traversal.
C4_ChampionFirstToReachMax ==
    (Returned /\ HasFirstPlace) =>
        /\ ~IsNone(results)
        /\ ~IsNone(Champion)
        /\ Champion[1].first_place_count = MaxWins
        /\ Champion[1].playfab_id = FirstToReachMax

\* C4 amended: with a position-0 record in the window, the champion has the
\* maximal first_place_count, reports that maximum, and among players tied at
\* the maximum is the one whose first position-0 record comes first in the
\* traversal (the first of them to enter first_place_counts).
C4_ChampionFirstToWin ==
    (Returned /\ HasFirstPlace) =>
        /\ ~IsNone(results)
        /\ ~IsNone(Champion)
        /\ Champion[1].first_place_count = MaxWins
        /\ Champion[1].playfab_id = FirstToWin

\* C4 witness: two players tied at two first places, the champion being the
\* one that won first although the other reached two first places earlier.
C4_Witness ==
    /\ Returned
    /\ HasFirstPlace
    /\ MaxWins = 2
    /\ Cardinality(TiedAtMax) = 2
    /\ FirstToWin # FirstToReachMax
    /\ Champion[1].playfab_id = FirstToWin

\* a ranking list, given as the ids and the counters of its entries, is the
\* first n entries of the players of `counts` in descending order of counter,
\* equal counters in the order of entry into `counts`
IsTopList(ids, cnts, counts, n) ==
    /\ Len(ids) <= n
    /\ Len(ids) = Min(n, Len(counts))
    /\ \A i \in DOMAIN ids :
        /\ DictHas(counts, ids[i])
        /\ cnts[i] = DictGet(counts, ids[i], 0)
    /\ \A i, j \in DOMAIN ids :
        i < j =>
            /\ ids[i] # ids[j]
            /\ cnts[i] >= cnts[j]
            /\ cnts[i] = cnts[j] => DictIndex(counts, ids[i]) < DictIndex(counts, ids[j])
    /\ \A q \in DOMAIN counts :
        counts[q].k \notin Range(ids) =>
            \A i \in DOMAIN ids :
                /\ counts[q].v <= cnts[i]
                /\ counts[q].v = cnts[i] => DictIndex(counts, ids[i]) < q

IdsOf(list) == [i \in DOMAIN list |-> list[i].playfab_id]

\* C5: each top-N list (monthly top_champions 10, top_podium_finishes 10,
\* top_10_finishes 20; weekly top_first_places 10, top_podium_finishes 10) is
\* the first N entries of the players sorted in descending order of the
\* list's counter: at most N long, counters non-increasing, no omitted player
\* with a greater counter than a listed one, equal counters in the order in
\* which the players entered the counter mapping.
C5_TopLists ==
    (Returned /\ ~IsNone(results)) =>
        IF prog = "monthly"
        THEN /\ IsTopList(IdsOf(Report.top_champions),
                    [i \in DOMAIN Report.top_champions |->
                        Report.top_champions[i].first_place_count],
                    first_place_counts, 10)
             /\ IsTopList(IdsOf(Report.top_podium_finishes),
                    [i \in DOMAIN Report.top_podium_finishes |->
                        Report.top_podium_finishes[i].podium_count],
                    podium_counts, 10)
             /\ IsTopList(IdsOf(Report.top_10_finishes),
                    [i \in DOMAIN Report.top_10_finishes |->
                        Report.top_10_finishes[i].top_10_count],
                    top_10_counts, 20)
        ELSE /\ IsTopList(IdsOf(Report.top_first_places),
                    [i \in DOMAIN Report.top_first_places |->
                        Report.top_first_places[i].count],
                    first_place_counts, 10)
             /\ IsTopList(IdsOf(Report.top_podium_finishes),
                    [i \in DOMAIN Report.top_podium_finishes |->
                        Report.top_podium_finishes[i].count],
                    podium_counts, 10)

\* C5 witness: a monthly report over more than 20 players in which the player
\* that entered top_10_counts last is listed among the 20 top-10 finishers,
\* ahead of the players it ties no one with, and an earlier player is left out.
C5_Witness ==
    /\ Returned
    /\ prog = "monthly"
    /\ Len(top_10_counts) > 20
    /\ Len(Report.top_10_finishes) = 20
    /\ Report.top_10_finishes[1].playfab_id = top_10_counts[Len(top_10_counts)].k
    /\ Report.top_10_finishes[2].top_10_count = Report.top_10_finishes[3].top_10_count
    /\ Len(Report.top_champions) = 10

\* the records of player p in the window, and the exact mean of their scores
RecordsOf(p) == {i \in DOMAIN scores : scores[i].playfab_id = p}
MeanScore(p) ==
    Rat(SumSeq([i \in 1..Len(scores) |->
                    IF scores[i].playfab_id = p THEN scores[i].score ELSE 0]),
        Cardinality(RecordsOf(p)))

MinDays == IF prog = "monthly" THEN 5 ELSE 3
MostConsistentCap == IF prog = "monthly" THEN 15 ELSE 10

\* C6: every entry of most_consistent has days_played >= the threshold of the
\* report (5 monthly, 3 weekly), days_played being the player's number of
\* records in the window; the list has at most 15 (monthly) or 10 (weekly)
\* entries; a player below the threshold is never listed, whatever its
\* average score.
C6_ConsistencyThreshold ==
    (Returned /\ ~IsNone(results)) =>
        /\ Len(Report.most_consistent) <= MostConsistentCap
        /\ \A i \in DOMAIN Report.most_consistent :
            /\ Report.most_consistent[i].days_played >= MinDays
            /\ Report.most_consistent[i].days_played =
                    Cardinality(RecordsOf(Report.most_consistent[i].playfab_id))
        /\ \A p \in PlayersSeen :
            Cardinality(RecordsOf(p)) < MinDays =>
                p \notin Range(IdsOf(Report.most_consistent))

\* C6 witness: a monthly report whose most_consistent list is full (15
\* entries) and leaves out a player with two records whose mean score is
\* greater than that of every other player.
C6_Witness ==
    /\ Returned
    /\ prog = "monthly"
    /\ Len(Report.most_consistent) = 15
    /\ \E p \in PlayersSeen :
        /\ Cardinality(RecordsOf(p)) = 2
        /\ \A q \in PlayersSeen \ {p} : RatGt(MeanScore(p), MeanScore(q))
        /\ p \notin Range(IdsOf(Report.most_consistent))

\* the command line a report script was started with
PeriodRead == ~IsNone(period)
PeriodYear == period[1].year
PeriodNumber == period[1].number

\* the day number of a civil date counted from 1970-01-01, computed from
\* 400-year eras of 146097 days with the year counted from 1 March
CivilDayNumber(y, m, d) ==
    LET yy == IF m <= 2 THEN y - 1 ELSE y
        era == yy \div 400
        yoe == yy - era * 400
        mp == IF m > 2 THEN m - 3 ELSE m + 9
        doy == ((153 * mp + 2) \div 5) + d - 1
        doe == yoe * 365 + (yoe \div 4) - (yoe \div 100) + doy
    IN  era * 146097 + doe - 719468
\* the day of the week of a day number, Monday = 0 (1970-01-01: a Thursday)
CivilWeekday(n) == (n + 3) % 7

\* a text of the form YYYY-MM-DD, and the numbers it spells
IsIsoDate(t) ==
    /\ Len(t) = 10
    /\ \A i \in {1, 2, 3, 4, 6, 7, 9, 10} : IsDigitChar(t[i])
    /\ t[5] = "-"
    /\ t[8] = "-"
IsoYearOf(t) ==
    DigitValue(t[1]) * 1000 + DigitValue(t[2]) * 100 + DigitValue(t[3]) * 10
        + DigitValue(t[4])
IsoMonthOf(t) == DigitValue(t[6]) * 10 + DigitValue(t[7])
IsoDayOf(t) == DigitValue(t[9]) * 10 + DigitValue(t[10])
DayNumberOfText(t) == CivilDayNumber(IsoYearOf(t), IsoMonthOf(t), IsoDayOf(t))

\* the leap-year rule as the claim words it
LeapYear(y) == (y % 4 = 0 /\ y % 100 # 0) \/ y % 400 = 0
\* the last valid calendar day of a month: the day before the 1st of the next
LastDayOf(y, m) ==
    CHOOSE d \in 28..31 :
        CivilDayNumber(y, m, d) + 1 =
            CivilDayNumber(IF m = 12 THEN y + 1 ELSE y, IF m = 12 THEN 1 ELSE m + 1, 1)

\* C7: for every year and every month in 1..12, get_month_date_range returns
\* as start_date the text of day 01 of that month and as end_date the text of
\* the last valid calendar day of that month (28, 29, 30 or 31); February
\* ends on the 29th exactly in leap years (divisible by 4 and not by 100, or
\* divisible by 400); (2024, 2) gives 2024-02-29 and (2023, 2) 2023-02-28.
C7_MonthWindow ==
    (PeriodRead /\ prog = "monthly" /\ PeriodNumber \in 1..12) =>
        /\ raised = "none"
        /\ IsIsoDate(start_date)
        /\ IsIsoDate(end_date)
        /\ <<IsoYearOf(start_date), IsoMonthOf(start_date), IsoDayOf(start_date)>>
               = <<PeriodYear, PeriodNumber, 1>>
        /\ <<IsoYearOf(end_date), IsoMonthOf(end_date), IsoDayOf(end_date)>>
               = <<PeriodYear, PeriodNumber, LastDayOf(PeriodYear, PeriodNumber)>>
        /\ PeriodNumber = 2 =>
               /\ IsoDayOf(end_date) \in {28, 29}
               /\ IsoDayOf(end_date) = 29 <=> LeapYear(PeriodYear)
        /\ (PeriodYear = 2024 /\ PeriodNumber = 2) =>
               end_date = <<"2", "0", "2", "4", "-", "0", "2", "-", "2", "9">>
        /\ (PeriodYear = 2023 /\ PeriodNumber = 2) =>
               end_date = <<"2", "0", "2", "3", "-", "0", "2", "-", "2", "8">>

\* C7 witness: the monthly script resolved February of the leap year 2024 to
\* 2024-02-01 .. 2024-02-29.
C7_Witness ==
    /\ PeriodRead
    /\ prog = "monthly"
    /\ pc = "resolved"
    /\ PeriodYear = 2024
    /\ PeriodNumber = 2
    /\ start_date = <<"2", "0", "2", "4", "-", "0", "2", "-", "0", "1">>
    /\ end_date = <<"2", "0", "2", "4", "-", "0", "2", "-", "2", "9">>

\* ISO 8601: week 1 of a year is the week (Monday to Sunday) that holds
\* 4 January; a year has as many weeks as lie between its week 1 and the next
IsoWeek1Monday(y) ==
    LET jan4 == CivilDayNumber(y, 1, 4) IN jan4 - CivilWeekday(jan4)
IsoWeeksIn(y) == (IsoWeek1Monday(y + 1) - IsoWeek1Monday(y)) \div 7
IsoMonday(y, w) == IsoWeek1Monday(y) + 7 * (w - 1)

\* C8: for every year and every week number valid for that year,
\* get_week_date_range returns as start_date the Monday of ISO-8601 week
\* (year, week) and as end_date the day six days later.
C8_IsoWeekWindow ==
    (PeriodRead /\ prog = "weekly" /\ PeriodNumber \in 1..IsoWeeksIn(PeriodYear)) =>
        /\ raised = "none"
        /\ IsIsoDate(start_date)
        /\ IsIsoDate(end_date)
        /\ DayNumberOfText(start_date) = IsoMonday(PeriodYear, PeriodNumber)
        /\ DayNumberOfText(end_date) = DayNumberOfText(start_date) + 6

\* what does hold of a week the resolver accepts: start_date is a Monday and
\* end_date the Sunday six days later
WeekWindowIsMondayToSunday ==
    (PeriodRead /\ prog = "weekly" /\ raised = "none") =>
        /\ IsIsoDate(start_date)
        /\ IsIsoDate(end_date)
        /\ CivilWeekday(DayNumberOfText(start_date)) = 0
        /\ DayNumberOfText(end_date) = DayNumberOfText(start_date) + 6

\* a month outside 1..12, a week outside 1..53
InvalidPeriod ==
    /\ PeriodRead
    /\ \/ prog = "monthly" /\ PeriodNumber \notin 1..12
       \/ prog = "weekly" /\ PeriodNumber \notin 1..53

\* C9: an invalid period (month outside 1..12, week outside 1..53) never
\* yields a window: the resolver fails, and the script ends without having
\* opened or queried the store.
C9_InvalidPeriodFails ==
    InvalidPeriod =>
        /\ raised # "none"
        /\ pc = "exit"
        /\ conn = "none"
        /\ IsNone(start_date)
        /\ IsNone(end_date)

\* what does hold: a month outside 1..12 and a week outside 0..53 fail
\* before the store is opened
OutOfRangePeriodFails ==
    (/\ PeriodRead
     /\ \/ prog = "monthly" /\ PeriodNumber \notin 1..12
        \/ prog = "weekly" /\ PeriodNumber \notin 0..53) =>
        /\ raised # "none"
        /\ pc = "exit"
        /\ conn = "none"

\* the command line of the export tool, and the path it writes to
ExportArgs == export_args[1]
ExportPath == OutputPath(ExportArgs)
\* the state in which main is about to call write_csv or write_json
AboutToWrite == prog = "export" /\ pc = "write"
\* the lines by which the tool reports that it exported no record
ReportsZeroRecords(out) ==
    /\ \E i \in DOMAIN out :
          out[i] \in {<<"Exported ", "0", " score records">>,
                      <<"Exported ", "0", " player records">>}
    /\ \E i \in DOMAIN out : out[i] = <<"  Records: ", "0">>

\* C10: when the exported record list is empty, write_csv creates or
\* modifies no file and the tool reports zero records; write_json writes a
\* file whose entire content is the two characters "[]"; in neither case is
\* an error raised (main returns 0).
C10_EmptyExport ==
    [][(AboutToWrite /\ records = <<>>) =>
          /\ raised' = "none"
          /\ exit_code' = Some(0)
          /\ ExportArgs.format = "csv" =>
                /\ files' = files
                /\ ReportsZeroRecords(stdout')
          /\ ExportArgs.format = "json" =>
                /\ DictHas(files', ExportPath)
                /\ DictGet(files', ExportPath, <<>>) = <<"[", "]">>
                /\ \A i \in DOMAIN files' :
                      files'[i].k # ExportPath => files'[i] \in Range(files)]_vars

\* C10 witness: a CSV export of scores ended with no record although the
\* store holds rows (the date filter left none), and the file that was
\* already at the output path still has its old content.
C10_Witness ==
    /\ prog = "export"
    /\ pc = "exit"
    /\ ~IsNone(export_args)
    /\ exit_code = Some(0)
    /\ ExportArgs.format = "csv"
    /\ ExportArgs.type = "scores"
    /\ ExportArgs.output = Some(UserPath)
    /\ daily_scores # <<>>
    /\ records = <<>>
    /\ files = <<[k |-> UserPath, v |-> OldContent]>>
    /\ ReportsZeroRecords(stdout)

\* the JSON side of the same case: the old content is replaced by "[]"
EmptyJsonExportWritten ==
    /\ prog = "export"
    /\ pc = "exit"
    /\ ~IsNone(export_args)
    /\ ExportArgs.format = "json"
    /\ records = <<>>
    /\ files = <<[k |-> UserPath, v |-> <<"[", "]">>]>>

\* the rows the weekly loop has processed so far, and among them the
\* position-0 rows of date d
Processed == 1..idx
WinsOn(d) == {i \in Processed : scores[i].stat_date = d /\ scores[i].position = 0}
InWeeklyCall == prog = "weekly" /\ pc \in {"loop", "done"}

\* C14: after calculate_weekly_stats has processed any sequence of records,
\* daily_winners has an entry for exactly the dates that have a position-0
\* record, the entry holds the player and the score of the last such record
\* in input order, and every position-0 record, overwritten or not, has
\* incremented its player's first_place_count.
C14_DailyWinnersLastWins ==
    InWeeklyCall =>
        /\ DictKeys(daily_winners) =
               {scores[i].stat_date : i \in {j \in Processed : scores[j].position = 0}}
        /\ \A k \in DOMAIN daily_winners :
               LET last == MaxOf(WinsOn(daily_winners[k].k))
               IN  /\ daily_winners[k].v.playfab_id = scores[last].playfab_id
                   /\ daily_winners[k].v.score = scores[last].score
        /\ \A k, l \in DOMAIN daily_winners :
               daily_winners[k].k = daily_winners[l].k => k = l
        /\ \A p \in RegisteredPlayers :
               DictGet(first_place_counts, p, 0) =
                   Cardinality({i \in Processed : /\ scores[i].position = 0
                                                  /\ scores[i].playfab_id = p})
        /\ (pc = "done" /\ ~IsNone(results)) => Report.daily_winners = daily_winners

\* C14 witness: a weekly report over two dates; the first date has two
\* position-0 records of different players and scores and its entry names
\* the later one, both players have a first place counted, and the second
\* date has a record but no position-0 record and no entry.
C14_Witness ==
    /\ Returned
    /\ prog = "weekly"
    /\ Len(scores) = 3
    /\ scores[1].position = 0
    /\ scores[2].position = 0
    /\ scores[1].stat_date = scores[2].stat_date
    /\ scores[1].playfab_id # scores[2].playfab_id
    /\ scores[1].score # scores[2].score
    /\ scores[3].stat_date # scores[1].stat_date
    /\ scores[3].position # 0
    /\ Len(Report.daily_winners) = 1
    /\ Report.daily_winners[1].v.playfab_id = scores[2].playfab_id
    /\ Len(first_place_counts) = 2

\* the distinct dates of the window on which player p has a record
DatesPlayed(p) == {scores[i].stat_date : i \in RecordsOf(p)}

\* C13 (as stated): the days_played of a player, as reported in
\* most_consistent and as used for eligibility, is the number of distinct
\* dates of the window on which the player has a record: every listed entry
\* reports that number, and a player is listed only if that number reaches
\* the threshold of the report.
C13_DaysPlayedDistinctDates ==
    (Returned /\ ~IsNone(results)) =>
        \A i \in DOMAIN Report.most_consistent :
            LET e == Report.most_consistent[i]
            IN  /\ e.days_played = Cardinality(DatesPlayed(e.playfab_id))
                /\ Cardinality(DatesPlayed(e.playfab_id)) >= MinDays

\* what the code does: days_played is the player's number of records
C13_DaysPlayedCountsRecords ==
    (Returned /\ ~IsNone(results)) =>
        \A i \in DOMAIN Report.most_consistent :
            Report.most_consistent[i].days_played =
                Cardinality(RecordsOf(Report.most_consistent[i].playfab_id))

\* the players eligible for most_consistent, and the place of player p in
\* the reported list (0 when p is not listed)
EligiblePlayers == {p \in PlayersSeen : Cardinality(RecordsOf(p)) >= MinDays}
ListedAt(p) ==
    LET at == {i \in DOMAIN Report.most_consistent :
                   Report.most_consistent[i].playfab_id = p}
    IN  IF at = {} THEN 0 ELSE CHOOSE i \in at : TRUE

\* the key of the report type, computed from the exact mean score
ExactKey(p) ==
    LET days == Cardinality(RecordsOf(p))
        mean == MeanScore(p)
    IN  IF prog = "monthly"
        THEN << Rat(days * mean.num, mean.den) >>
        ELSE << Rat(days, 1), mean >>

OrderedByExactKey ==
    LET key == [p \in EligiblePlayers |-> ExactKey(p)]
    IN  \A p, q \in EligiblePlayers :
            (KeyGt(key[p], key[q]) /\ ListedAt(q) # 0) =>
                (ListedAt(p) # 0 /\ ListedAt(p) < ListedAt(q))

\* C12 (as stated): in both reports most_consistent is in descending order
\* of the key computed from the exact mean score (monthly days_played x
\* average_score, weekly the pair (days_played, average_score)): of two
\* eligible players the one with the larger key is never listed after the
\* other, and a player cut by the truncation never has a larger key than a
\* listed one.
C12_OrderedByExactKey ==
    (Returned /\ ~IsNone(results)) => OrderedByExactKey

\* what the code does: the monthly list is ordered by the exact key
C12_MonthlyOrderedByExactKey ==
    (Returned /\ ~IsNone(results) /\ prog = "monthly") => OrderedByExactKey

\* the call of one of the four functions that open the store has been left,
\* by return or by an exception
FunctionLeft ==
    \/ prog \in {"monthly", "weekly"} /\ pc = "done"
    \/ prog = "export" /\ pc \in {"write", "exit"} /\ ~IsNone(export_args)

\* C11 (as stated): in calculate_monthly_stats, calculate_weekly_stats,
\* export_daily_scores and export_player_summary the connection opened at the
\* start of the call is closed on every exit path: once the function is
\* left, by return or by an error of a query, the connection is closed.
C11_ConnectionReleased == FunctionLeft => conn = "closed"

\* what the code does: the connection is closed when the function returns,
\* and also when calculate_monthly_stats fails dividing after conn.close()
C11_ClosedOnReturn ==
    (FunctionLeft /\ raised \in {"none", "ZeroDivisionError"}) => conn = "closed"

====
